---- MODULE Spec2Model ----
(***************************************************************************)
(* A model of passwordstrength.py: the password scorer score_password and  *)
(* its helpers charset_size, shannon_entropy_bits and                      *)
(* repeating_or_sequences_penalty.                                         *)
(*                                                                         *)
(* A password is a sequence of characters, each character a one-character  *)
(* string.  One behaviour of the model is one call of score_password: the  *)
(* initial state holds the argument, every action is one numbered step of  *)
(* the function body, and the final state (pc = "done") holds the          *)
(* dictionary the call returns, as a record.                               *)
(***************************************************************************)
EXTENDS Integers, Sequences, FiniteSets

VARIABLES
    pw,        \* the argument of score_password
    pc,        \* the position reached in the body of score_password
    score,     \* local `score`, the running score
    reasons,   \* local `reasons`
    L,         \* local `L`
    bits,      \* local `bits`, in millionths of a bit
    penalty,   \* local `penalty` of step 5
    result     \* the returned dictionary, <<>> until the call returns

vars == <<pw, pc, score, reasons, L, bits, penalty, result>>

----------------------------------------------------------------------------
(* Characters *)

LowerAlphabet ==
    <<"a","b","c","d","e","f","g","h","i","j","k","l","m",
      "n","o","p","q","r","s","t","u","v","w","x","y","z">>

UpperAlphabet ==
    <<"A","B","C","D","E","F","G","H","I","J","K","L","M",
      "N","O","P","Q","R","S","T","U","V","W","X","Y","Z">>

DigitAlphabet == <<"0","1","2","3","4","5","6","7","8","9">>

Range(s) == {s[i] : i \in 1..Len(s)}

\* The regular expression classes [a-z], [A-Z], [0-9] and \w.
IsLower(c) == c \in Range(LowerAlphabet)
IsUpper(c) == c \in Range(UpperAlphabet)
IsDigit(c) == c \in Range(DigitAlphabet)
IsWord(c) == IsLower(c) \/ IsUpper(c) \/ IsDigit(c) \/ c = "_"

\* The regular expression `.` (no DOTALL flag): any character but a line feed.
IsDot(c) == c # "\n"

\* str.lower() on one character.
LowerChar(c) ==
    IF IsUpper(c)
    THEN LowerAlphabet[CHOOSE i \in 1..Len(UpperAlphabet) : UpperAlphabet[i] = c]
    ELSE c

\* str.lower()
Lower(s) == [i \in 1..Len(s) |-> LowerChar(s[i])]

\* `sub in s` on strings, and re.search of a literal.
Contains(s, sub) ==
    \E i \in 1..(Len(s) - Len(sub) + 1) : SubSeq(s, i, i + Len(sub) - 1) = sub

\* The regular expression class [^\w].
IsSymbol(c) == ~IsWord(c)

\* re.search(r"[a-z]", s), and the same for [A-Z], [0-9] and [^\w].
HasLower(s) == \E i \in 1..Len(s) : IsLower(s[i])
HasUpper(s) == \E i \in 1..Len(s) : IsUpper(s[i])
HasDigit(s) == \E i \in 1..Len(s) : IsDigit(s[i])
HasSymbol(s) == \E i \in 1..Len(s) : IsSymbol(s[i])

----------------------------------------------------------------------------
(* The blacklist *)

COMMON == {
    <<"p","a","s","s","w","o","r","d">>,
    <<"1","2","3","4","5","6">>,
    <<"1","2","3","4","5","6","7","8","9">>,
    <<"1","2","3","4","5">>,
    <<"q","w","e","r","t","y">>,
    <<"a","b","c","1","2","3">>,
    <<"1","1","1","1","1","1">>,
    <<"1","2","3","1","2","3">>,
    <<"l","e","t","m","e","i","n">>,
    <<"a","d","m","i","n">>,
    <<"w","e","l","c","o","m","e">>,
    <<"i","l","o","v","e","y","o","u">>,
    <<"m","o","n","k","e","y">>,
    <<"d","r","a","g","o","n">>,
    <<"f","o","o","t","b","a","l","l">>,
    <<"b","a","s","e","b","a","l","l">>,
    <<"q","w","e","r","t","y","u","i","o","p">>,
    <<"1","2","3","4">>,
    <<"1","q","2","w","3","e","4","r">>,
    <<"p","a","s","s","w","0","r","d">>,
    <<"p","a","s","s","w","o","r","d","1">>,
    <<"0","0","0","0","0","0">> }

----------------------------------------------------------------------------
(* charset_size and shannon_entropy_bits *)

charset_size(s) ==
    LET size == (IF HasLower(s) THEN 26 ELSE 0)
              + (IF HasUpper(s) THEN 26 ELSE 0)
              + (IF HasDigit(s) THEN 10 ELSE 0)
              + (IF HasSymbol(s) THEN 33 ELSE 0)
    IN  IF size = 0 THEN 1 ELSE size

\* math.log2 on the values charset_size can return, in millionths of a bit
\* (rounded down).  No charset size above 1 is a power of two, so no entropy
\* is exactly 40, 60 or 80 bits and the comparisons with the tiers are exact.
Log2Micro(n) ==
    CASE n = 1  -> 0
      [] n = 10 -> 3321928
      [] n = 26 -> 4700439
      [] n = 33 -> 5044394
      [] n = 36 -> 5169925
      [] n = 43 -> 5426264
      [] n = 52 -> 5700439
      [] n = 59 -> 5882643
      [] n = 62 -> 5954196
      [] n = 69 -> 6108524
      [] n = 85 -> 6409390
      [] n = 95 -> 6569855

\* len(pw) * math.log2(charset_size(pw)), in millionths of a bit.
shannon_entropy_bits(s) == Len(s) * Log2Micro(charset_size(s))

\* round(bits, 1), in tenths of a bit.
RoundTenths(micro) == (micro + 50000) \div 100000

----------------------------------------------------------------------------
(* repeating_or_sequences_penalty *)

\* re.search(r"(.)\1{2,}", s)
HasRepeat(s) ==
    \E i \in 1..(Len(s) - 2) :
        IsDot(s[i]) /\ s[i + 1] = s[i] /\ s[i + 2] = s[i]

NumericRuns == {
    <<"0","1","2","3">>, <<"1","2","3","4">>, <<"2","3","4","5">>,
    <<"3","4","5","6">>, <<"4","5","6","7">>, <<"5","6","7","8">>,
    <<"6","7","8","9">> }

\* re.search(r"(?:0123|1234|2345|3456|4567|5678|6789)", s)
HasNumericRun(s) == \E r \in NumericRuns : Contains(s, r)

AlphaRuns == {
    <<"a","b","c","d">>, <<"b","c","d","e">>, <<"c","d","e","f">>,
    <<"d","e","f","g">>, <<"q","w","e","r">>, <<"a","s","d","f">>,
    <<"z","x","c","v">> }

\* re.search(r"(?:abcd|bcde|cdef|defg|qwer|asdf|zxcv)", s.lower())
HasAlphaRun(s) == \E r \in AlphaRuns : Contains(Lower(s), r)

kb_rows == <<
    <<"q","w","e","r","t","y","u","i","o","p">>,
    <<"a","s","d","f","g","h","j","k","l">>,
    <<"z","x","c","v","b","n","m">> >>

\* Mutant of RowPenalty: the loop without its break, one point per match.
RowPenaltyNoBreak(row, s) ==
    Cardinality({i \in 1..(Len(row) - 3) : Contains(Lower(s), SubSeq(row, i, i + 3))})

\* The inner loop over one row: 1 on the first i with row[i:i+4] in
\* s.lower(), then break; 0 when the loop runs out.
RowPenalty(row, s) ==
    IF \E i \in 1..(Len(row) - 3) : Contains(Lower(s), SubSeq(row, i, i + 3))
    THEN 1 ELSE 0

repeating_or_sequences_penalty(s) ==
      (IF HasRepeat(s) THEN 1 ELSE 0)
    + (IF HasNumericRun(s) THEN 1 ELSE 0)
    + (IF HasAlphaRun(s) THEN 1 ELSE 0)
    + RowPenalty(kb_rows[1], s)
    + RowPenalty(kb_rows[2], s)
    + RowPenalty(kb_rows[3], s)

----------------------------------------------------------------------------
(* score_password *)

\* The reason texts.  The dash of the low-entropy text is a hyphen here (the
\* source has an em dash).
TooShortReason == "Too short (< 8 characters)."
VarietyReason == "Use a mix of lowercase, uppercase, digits, and symbols."
LowEntropyReason == "Low entropy - consider longer length and more variety."
PatternReason == "Avoid repeats or easy sequences (e.g., 1234, qwer, aaa)."

EmptyVerdict ==
    [score |-> 0, label |-> "Empty", reasons |-> <<"No password provided.">>]

CommonVerdict ==
    [score |-> 1, label |-> "Very Weak",
     reasons |-> <<"Common password (easily guessed).">>]

\* Mutant of IsCommon: the membership test without .lower().
IsCommonCaseSensitive(s) == s \in COMMON

\* pw.lower() in COMMON
IsCommon(s) == Lower(s) \in COMMON

\* sum(bool(re.search(p, pw)) for p in [a-z], [A-Z], [0-9], [^\w])
Cats(s) ==
      (IF HasLower(s) THEN 1 ELSE 0)
    + (IF HasUpper(s) THEN 1 ELSE 0)
    + (IF HasDigit(s) THEN 1 ELSE 0)
    + (IF HasSymbol(s) THEN 1 ELSE 0)

Max(a, b) == IF a >= b THEN a ELSE b
Min(a, b) == IF a <= b THEN a ELSE b

\* Mutant of VarietyPoints: one point for every class, the first included.
VarietyPointsNoOffset(cats) == cats

\* max(0, cats - 1)
VarietyPoints(cats) == Max(0, cats - 1)

\* Mutant of LengthPoints: the tiers compared with > in place of >=.
LengthPointsStrict(n) ==
    IF n > 16 THEN 4
    ELSE IF n > 12 THEN 3
    ELSE IF n > 10 THEN 2
    ELSE IF n > 8 THEN 1
    ELSE 0

LengthPoints(n) ==
    IF n >= 16 THEN 4
    ELSE IF n >= 12 THEN 3
    ELSE IF n >= 10 THEN 2
    ELSE IF n >= 8 THEN 1
    ELSE 0

EntropyPoints(micro) ==
    IF micro >= 80000000 THEN 3
    ELSE IF micro >= 60000000 THEN 2
    ELSE IF micro >= 40000000 THEN 1
    ELSE 0

\* Mutant of Clamp: the upper clamp alone.
ClampNoFloor(n) == Min(10, n)

Clamp(n) == Max(0, Min(10, n))

\* Mutant of Label: the tiers compared with > in place of >=.
LabelStrict(n) ==
    IF n > 9 THEN "Excellent"
    ELSE IF n > 7 THEN "Strong"
    ELSE IF n > 5 THEN "Moderate"
    ELSE IF n > 3 THEN "Weak"
    ELSE "Very Weak"

Label(n) ==
    IF n >= 9 THEN "Excellent"
    ELSE IF n >= 7 THEN "Strong"
    ELSE IF n >= 5 THEN "Moderate"
    ELSE IF n >= 3 THEN "Weak"
    ELSE "Very Weak"

----------------------------------------------------------------------------
(* The inputs *)

MaxChunks == 4

Chunks == {
    <<"a">>, <<"A">>, <<"!">>, <<"_">>, <<"\n">>,
    <<"1","2","3","4">>,
    <<"Q","w","E","r","T","y">>,
    <<"a","s","d","f">>,
    <<"z","x","c","v","v","v">>,
    <<"x","K","9","#">> }

RECURSIVE Concat(_)
Concat(ss) == IF ss = <<>> THEN <<>> ELSE Head(ss) \o Concat(Tail(ss))

Inputs == { Concat(ss) : ss \in UNION { [1..n -> Chunks] : n \in 0..MaxChunks } }

----------------------------------------------------------------------------
(* The call *)

Init ==
    /\ pw \in Inputs
    /\ pc = "empty_check"
    /\ score = 0
    /\ reasons = <<>>
    /\ L = 0
    /\ bits = 0
    /\ penalty = 0
    /\ result = <<>>

\* Mutant of EmptyReturn: the empty check missing, the empty string falls
\* through to the blacklist check.
EmptyFallsThrough ==
    /\ pc = "empty_check"
    /\ pw = <<>>
    /\ reasons' = <<>>
    /\ score' = 0
    /\ pc' = "common_check"
    /\ UNCHANGED <<pw, L, bits, penalty, result>>

\* if not pw: return {...}
EmptyReturn ==
    /\ pc = "empty_check"
    /\ pw = <<>>
    /\ result' = EmptyVerdict
    /\ pc' = "done"
    /\ UNCHANGED <<pw, score, reasons, L, bits, penalty>>

\* reasons = []; score = 0
EmptyPass ==
    /\ pc = "empty_check"
    /\ pw # <<>>
    /\ reasons' = <<>>
    /\ score' = 0
    /\ pc' = "common_check"
    /\ UNCHANGED <<pw, L, bits, penalty, result>>

\* 1) if pw.lower() in COMMON: return {...}
CommonReturn ==
    /\ pc = "common_check"
    /\ IsCommon(pw)
    /\ result' = CommonVerdict
    /\ pc' = "done"
    /\ UNCHANGED <<pw, score, reasons, L, bits, penalty>>

CommonPass ==
    /\ pc = "common_check"
    /\ ~IsCommon(pw)
    /\ pc' = "length"
    /\ UNCHANGED <<pw, score, reasons, L, bits, penalty, result>>

\* 2) Length tiers
LengthTier ==
    /\ pc = "length"
    /\ L' = Len(pw)
    /\ score' = score + LengthPoints(Len(pw))
    /\ reasons' = IF Len(pw) >= 8 THEN reasons ELSE Append(reasons, TooShortReason)
    /\ pc' = "variety"
    /\ UNCHANGED <<pw, bits, penalty, result>>

\* Mutant of Variety: the reason appended for no class only (cats < 1).
VarietyReasonOffByOne ==
    /\ pc = "variety"
    /\ score' = score + Max(0, Cats(pw) - 1)
    /\ reasons' = IF Cats(pw) < 1 THEN Append(reasons, VarietyReason) ELSE reasons
    /\ pc' = "entropy"
    /\ UNCHANGED <<pw, L, bits, penalty, result>>

\* 3) Character variety
Variety ==
    /\ pc = "variety"
    /\ score' = score + VarietyPoints(Cats(pw))
    /\ reasons' = IF Cats(pw) <= 1 THEN Append(reasons, VarietyReason) ELSE reasons
    /\ pc' = "entropy"
    /\ UNCHANGED <<pw, L, bits, penalty, result>>

\* 4) Entropy (rough)
Entropy ==
    /\ pc = "entropy"
    /\ bits' = shannon_entropy_bits(pw)
    /\ score' = score + EntropyPoints(bits')
    /\ reasons' = IF bits' >= 40000000 THEN reasons
                  ELSE Append(reasons, LowEntropyReason)
    /\ pc' = "pattern"
    /\ UNCHANGED <<pw, L, penalty, result>>

\* 5) Pattern penalties
Pattern ==
    /\ pc = "pattern"
    /\ penalty' = repeating_or_sequences_penalty(pw)
    /\ score' = score - penalty'
    /\ reasons' = IF penalty' # 0 THEN Append(reasons, PatternReason) ELSE reasons
    /\ pc' = "clamp"
    /\ UNCHANGED <<pw, L, bits, result>>

\* Clamp and label; return {...}
ClampAndReturn ==
    /\ pc = "clamp"
    /\ score' = Clamp(score)
    /\ result' = [score |-> score', label |-> Label(score'),
                  entropy_bits |-> RoundTenths(bits), length |-> L,
                  reasons |-> reasons]
    /\ pc' = "done"
    /\ UNCHANGED <<pw, reasons, L, bits, penalty>>

Next ==
    \/ EmptyReturn
    \/ EmptyPass
    \/ CommonReturn
    \/ CommonPass
    \/ LengthTier
    \/ Variety
    \/ Entropy
    \/ Pattern
    \/ ClampAndReturn

Spec == Init /\ [][Next]_vars

----------------------------------------------------------------------------
(* Properties *)

\* The call has returned through the heuristics (neither early return).
Scored == pc = "done" /\ pw # <<>> /\ Lower(pw) \notin COMMON

\* The number of the four classes lowercase, uppercase, digit and non-word
\* symbol that have a character in s.
ClassCount(s) ==
    Cardinality({k \in {"lower", "upper", "digit", "symbol"} :
        \E i \in 1..Len(s) :
            \/ k = "lower" /\ s[i] \in Range(LowerAlphabet)
            \/ k = "upper" /\ s[i] \in Range(UpperAlphabet)
            \/ k = "digit" /\ s[i] \in Range(DigitAlphabet)
            \/ k = "symbol" /\ s[i] \notin
                   Range(LowerAlphabet) \cup Range(UpperAlphabet)
                   \cup Range(DigitAlphabet) \cup {"_"}})

\* C1: for every input, empty, blacklisted or other, the returned score is an
\* integer with 0 <= score <= 10.
C1_ScoreInRange == pc = "done" => result.score \in 0..10

\* A call whose total was negative (no points, at least two penalty points)
\* returned 0.
C1_Witness ==
    /\ Scored
    /\ Len(result.reasons) = 4
    /\ penalty >= 2
    /\ result.score = 0

\* The step-8 mapping, score by score.
StepEightLabel(n) ==
    CASE n \in {9, 10} -> "Excellent"
      [] n \in {7, 8}  -> "Strong"
      [] n \in {5, 6}  -> "Moderate"
      [] n \in {3, 4}  -> "Weak"
      [] n \in {0, 1, 2} -> "Very Weak"

\* C2 as stated: over all verdicts, the label is the step-8 function of the
\* score, so two verdicts with the same score have the same label.
C2_LabelIsFunctionOfScore ==
    pc = "done" => result.label = StepEightLabel(result.score)

\* C2 as amended: the label is the step-8 function of the score over the
\* verdicts of non-empty passwords; the verdict of the empty password has
\* score 0 and the label "Empty".
C2_LabelOfNonEmpty ==
    pc = "done" =>
        result.label = IF pw = <<>> THEN "Empty" ELSE StepEightLabel(result.score)

\* A non-empty password scored 0: the score of the empty verdict, with the
\* label "Very Weak".
C2_Witness ==
    /\ Scored
    /\ result.score = 0
    /\ result.label = "Very Weak"

\* C3: the empty string gets exactly score 0, label "Empty", the one reason
\* "No password provided." and no other field, and the call returns from the
\* empty check: the blacklist check and the heuristics never run on it.
C3_EmptyVerdict ==
    pw = <<>> =>
        /\ pc \in {"empty_check", "done"}
        /\ reasons = <<>>
        /\ pc = "done" =>
            /\ DOMAIN result = {"score", "label", "reasons"}
            /\ result.score = 0
            /\ result.label = "Empty"
            /\ result.reasons = <<"No password provided.">>

C3_Witness == pc = "done" /\ pw = <<>>

\* C4: a non-empty password whose lowercased form is in the blacklist gets
\* exactly score 1, label "Very Weak", the one reason "Common password
\* (easily guessed)." and no other field.
C4_CommonVerdict ==
    pc = "done" /\ pw # <<>> /\ Lower(pw) \in COMMON =>
        /\ DOMAIN result = {"score", "label", "reasons"}
        /\ result.score = 1
        /\ result.label = "Very Weak"
        /\ result.reasons = <<"Common password (easily guessed).">>

\* A blacklisted password not written in lowercase, with two character
\* classes and a pattern penalty of its own, has returned.
C4_Witness ==
    /\ pc = "done"
    /\ Lower(pw) \in COMMON
    /\ pw # Lower(pw)
    /\ ClassCount(pw) = 2
    /\ repeating_or_sequences_penalty(pw) > 0

\* The terms of C5.
C5_lengthPts(n) ==
    CASE n >= 16 -> 4
      [] n \in 12..15 -> 3
      [] n \in 10..11 -> 2
      [] n \in 8..9 -> 1
      [] n < 8 -> 0

C5_entropyPts(s) ==
    LET e == Len(s) * Log2Micro(charset_size(s))
    IN  CASE e >= 80 * 1000000 -> 3
          [] e < 80 * 1000000 /\ e >= 60 * 1000000 -> 2
          [] e < 60 * 1000000 /\ e >= 40 * 1000000 -> 1
          [] e < 40 * 1000000 -> 0

C5_total(s) ==
    C5_lengthPts(Len(s)) + Max(0, ClassCount(s) - 1) + C5_entropyPts(s)
        - repeating_or_sequences_penalty(s)

\* C5: for a non-empty, non-blacklisted password of length L the score is
\* max(0, min(10, lengthPts + varietyPts + entropyPts - penalty)) and the
\* length field is L.
C5_ScoreFormula ==
    Scored =>
        /\ result.score = Max(0, Min(10, C5_total(pw)))
        /\ result.length = Len(pw)

\* A call in which every term is positive.
C5_Witness ==
    /\ Scored
    /\ C5_lengthPts(Len(pw)) > 0
    /\ ClassCount(pw) >= 2
    /\ C5_entropyPts(pw) > 0
    /\ penalty > 0
    /\ result.score > 0

\* The reasons C6 expects, in its fixed order.
C6_expected(s) ==
       (IF Len(s) < 8 THEN <<TooShortReason>> ELSE <<>>)
    \o (IF ClassCount(s) <= 1 THEN <<VarietyReason>> ELSE <<>>)
    \o (IF Len(s) * Log2Micro(charset_size(s)) < 40 * 1000000
        THEN <<LowEntropyReason>> ELSE <<>>)
    \o (IF repeating_or_sequences_penalty(s) > 0 THEN <<PatternReason>> ELSE <<>>)

\* C6: for a non-empty, non-blacklisted password, reasons is exactly the
\* subsequence of [too short, mix of classes, low entropy, avoid repeats or
\* sequences] whose conditions hold, each at most once, in that order.
C6_Reasons == Scored => result.reasons = C6_expected(pw)

\* The first and the last reason without the two between them.
C6_Witness == Scored /\ result.reasons = <<TooShortReason, PatternReason>>

\* C7 as stated: for a non-empty password charset_size is the sum of the
\* sizes of the classes present and at least 10, so its entropy estimate is
\* positive and its class count at least 1.
C7_CharsetAtLeastTen ==
    Scored =>
        /\ charset_size(pw) >= 10
        /\ bits > 0
        /\ Cats(pw) >= 1

\* Three or more consecutive occurrences of one character, whatever it is.
C8_repeat(s) == \E i \in 1..(Len(s) - 2) : s[i] = s[i + 1] /\ s[i] = s[i + 2]

C8_row(row, s) ==
    \E i \in 1..(Len(row) - 3) : Contains(Lower(s), SubSeq(row, i, i + 3))

\* C8 as stated: the penalty is the sum of six independent indicators: some
\* character three or more times in a row; an ascending four-digit run; one
\* of the seven alphabetic runs in the lowercased password; and, for each of
\* the three keyboard rows, four consecutive characters of the row in the
\* lowercased password.
C8_PenaltyIsSumOfIndicators ==
    Scored =>
        penalty = (IF C8_repeat(pw) THEN 1 ELSE 0)
                + (IF HasNumericRun(pw) THEN 1 ELSE 0)
                + (IF HasAlphaRun(pw) THEN 1 ELSE 0)
                + (IF C8_row(kb_rows[1], pw) THEN 1 ELSE 0)
                + (IF C8_row(kb_rows[2], pw) THEN 1 ELSE 0)
                + (IF C8_row(kb_rows[3], pw) THEN 1 ELSE 0)

\* C9 as stated: the penalty lies between 0 and 5.
C9_PenaltyAtMostFive == Scored => penalty \in 0..5

\* C9 as amended: the penalty lies between 0 and 6, one point for each of
\* the repeat, the numeric run, the alphabetic run and the three rows.
C9_PenaltyAtMostSix == Scored => penalty \in 0..6

\* A password with all six points.
C9_Witness == Scored /\ penalty = 6

\* C10: the running score never exceeds 10, so the upper clamp changes
\* nothing; the score is 10 exactly for a non-blacklisted password of length
\* at least 16 with all four classes and no penalty, whose entropy tier is 3
\* and whose reasons are empty; a verdict with a reason has score at most 9.
C10_ScoreTen ==
    /\ score <= 10
    /\ pc = "done" =>
        /\ result.score = 10 <=>
            /\ Scored
            /\ Len(pw) >= 16
            /\ ClassCount(pw) = 4
            /\ penalty = 0
        /\ result.score = 10 => result.reasons = <<>> /\ bits >= 80 * 1000000
        /\ result.reasons # <<>> => result.score <= 9

C10_Witness == pc = "done" /\ result.score = 10

====
